---- MODULE Spec2Model ----
(***************************************************************************)
(* Model of swagger/lib/auth-middleware.js (volos-swagger).                *)
(*                                                                         *)
(* JavaScript values are modelled as records [kind, id]:                   *)
(*   kind "absent"    the key is not a property of the object              *)
(*   kind "undefined" the key is a property whose value is undefined       *)
(*   kind "string"    a string value                                       *)
(*   kind "own"       an object written by the author of the document      *)
(*   kind "tmpl"      a reference to an object of the bundled              *)
(*                    oauth_operations.yaml document (shared, not copied)  *)
(***************************************************************************)
EXTENDS Integers, Sequences, FiniteSets, TLC

VARIABLES
    swagger,      \* the object the module variable `swagger` refers to
    oauthTags,    \* x-volos-oauth-service property of each oauthSwagger path item
    ipc,          \* position of the importOAuth call: "ready", "returned", "thrown"
    iargs,        \* arguments of the importOAuth call being made
    ipre,         \* history: the swagger object as it was when importOAuth was called
    ithrown,      \* the Error thrown by importOAuth, NoError when none
    resourcesMap, \* the object the module variable `resourcesMap` refers to
    document,     \* the API document the router hands over as req.swagger.swaggerObject
    opAuth,       \* the x-a127-/x-volos-authorizations of each operation and of the path
    opVolos,      \* operation.volos of each operation (the cache slot)
    req,          \* the requests: position, operation, credentials, chain, req.volos
    log,          \* history: per operation, what its builds did
    loads,        \* the number of setSwagger(swaggerObject) calls made so far
    mws,          \* the attachments of each mwFunction that middleware() returned
    handler       \* the calls of security handlers

ivars == <<ipc, iargs, ipre, ithrown>>
lvars == <<loads, mws>>
hvars == <<handler>>
rvars == <<resourcesMap, document, opAuth, opVolos, req, log, loads, mws, handler>>

vars == <<swagger, oauthTags, ipc, iargs, ipre, ithrown,
          resourcesMap, document, opAuth, opVolos, req, log, loads, mws, handler>>

(***************************************************************************)
(* Bounds.                                                                 *)
(***************************************************************************)
MaxTokenPaths == 2      \* entries of one options.tokenPaths object
MaxRequests   == 3      \* requests handled by the middleware
MaxHandlerCalls == 2    \* calls of security handlers

(***************************************************************************)
(* JavaScript values.                                                      *)
(***************************************************************************)
Val(k, i)  == [kind |-> k, id |-> i]
Absent     == Val("absent", "")
Undefined  == Val("undefined", "")
Str(s)     == Val("string", s)
Own(i)     == Val("own", i)
Tmpl(i)    == Val("tmpl", i)

\* JavaScript truthiness of the values the model uses
Truthy(v)  == v.kind \in {"own", "tmpl"} \/ (v.kind = "string" /\ v.id # "")

\* reading obj[key]: a missing property reads as undefined
Get(obj, key) == IF obj[key] = Absent THEN Undefined ELSE obj[key]

\* Object.keys(obj) as a set
Keys(obj)  == {k \in DOMAIN obj : obj[k] # Absent}

\* _.values(obj) as a set
Values(obj) == {obj[k] : k \in Keys(obj)}

\* _.contains(obj, value): is `value` one of the VALUES of obj
Contains(obj, value) == value \in Values(obj)

(***************************************************************************)
(* Constants of the module.                                                *)
(***************************************************************************)
OAUTH_PROP == "x-volos-oauth-service"

\* the strings the model draws path strings, endpoint names, data-shape names
\* and resource names from
PathStrings   == {"/accesstoken", "/refresh", "/orders"}
EndpointNames == {"token", "refresh", "login"}
DefNames      == {"TokenResponse", "Order"}
ResourceNames == {"oauth2", "oauth3"}

\* the bundled flow-template document, require('../spec/oauth_operations.yaml'):
\* its paths are keyed '/<name>'; a key is modelled as the pair <<"/", name>>
OauthSwaggerPathKeys    == << <<"/", "token">>, <<"/", "refresh">> >>
OauthSwaggerDefinitions == {"TokenResponse"}

SeqRange(s) == {s[i] : i \in 1..Len(s)}

\* the element of a one-element set: {F(x) : x \in {e}} evaluates e once
Only(S) == CHOOSE x \in S : TRUE

\* oauthSwagger.paths[keyPath]
OauthSwaggerPath(keyPath) ==
    IF keyPath \in SeqRange(OauthSwaggerPathKeys) THEN Tmpl(keyPath[2]) ELSE Undefined

\* '/' + name
KeyPath(name) == <<"/", name>>

\* key.substring(1)
Substring1_Mutant(key) == key[1]

Substring1(key) == key[2]

NoTag   == "(none)"
NoError == [type |-> "none", names |-> <<>>, keys |-> <<>>]

\* no importOAuth call made yet
NoArgs == [resourceName |-> NoTag, paths |-> [array |-> TRUE, entries |-> <<>>]]

EmptyObject(D) == [k \in D |-> Absent]

\* swagger.paths || (swagger.paths = {})
OrEmpty(obj, D) == IF obj = Undefined THEN EmptyObject(D) ELSE obj

(***************************************************************************)
(* importOAuth(resourceName, paths).  `paths` is options.tokenPaths:       *)
(* [array, entries] with entries a sequence of [name, path] in the order   *)
(* _.each visits them; for an array the name is the index.  The result is  *)
(* what the call leaves behind: swagger.paths, swagger.definitions, the    *)
(* tags of the template path items and the Error thrown.                   *)
(***************************************************************************)
\* paths.length: the number of elements of an array, undefined for an object
PathsLength(paths) == IF paths.array THEN Len(paths.entries) ELSE -1

\* _.filter(paths, function(path) { return _.contains(allPaths, path); })
ExistingPaths(allPaths, paths) ==
    SelectSeq([i \in 1..Len(paths.entries) |-> paths.entries[i].path],
              LAMBDA path : Contains(allPaths, Str(path)))

\* _.filter(allDefinitions, function(key) {
\*     return _.contains(Object.keys(oauthSwagger.definitions), key); })
\* the callback's first argument is the VALUE of each definition
ExistingDefinitions(allDefinitions) ==
    {v \in Values(allDefinitions) : v \in {Str(k) : k \in OauthSwaggerDefinitions}}

\* Object.keys(oauthSwagger.paths).map(function(key) { return key.substring(1); })
ValidKeys == [i \in 1..Len(OauthSwaggerPathKeys) |-> Substring1(OauthSwaggerPathKeys[i])]

\* one pass of the _.each(paths, ...) loop, on entry e, after the assignment
\* allPaths[path] = oauthSwagger.paths[keyPath] gave `written`
TagOrThrow(written, resourceName, e) ==
    IF ~Truthy(Get(written.paths, e.path))
    THEN [written EXCEPT !.thrown =
             [type |-> "InvalidTokenPathKey", names |-> <<e.name>>, keys |-> ValidKeys]]
    ELSE [written EXCEPT !.tags[written.paths[e.path].id] = resourceName]

AddTokenPath(st, resourceName, e) ==
    Only({TagOrThrow(written, resourceName, e) :
            written \in {[st EXCEPT !.paths[e.path] = OauthSwaggerPath(KeyPath(e.name))]}})

\* the _.each(paths, ...) loop from entry i on
RECURSIVE AddTokenPaths(_, _, _, _)
AddTokenPaths(st, resourceName, entries, i) ==
    IF i > Len(entries) \/ st.thrown # NoError THEN st
    ELSE Only({AddTokenPaths(next, resourceName, entries, i + 1) :
                 next \in {AddTokenPath(st, resourceName, entries[i])}})

\* _.each(oauthSwagger.definitions, function(value, key) { allDefinitions[key] = value; })
AddDefinitions(st) ==
    [st EXCEPT !.definitions =
        [k \in DOMAIN st.definitions |->
            IF k \in OauthSwaggerDefinitions THEN Tmpl(k) ELSE st.definitions[k]]]

\* importOAuth from the collision tests on, st0 the state after lines 201-202
CheckAndAdd(st0, resourceName, paths) ==
    IF Len(ExistingPaths(st0.paths, paths)) > 0
    THEN [st0 EXCEPT !.thrown = [type |-> "PathsExist",
                                 names |-> ExistingPaths(st0.paths, paths), keys |-> <<>>]]
    ELSE IF Cardinality(ExistingDefinitions(st0.definitions)) > 0
    THEN [st0 EXCEPT !.thrown = [type |-> "DefinitionsExist", names |-> <<>>, keys |-> <<>>]]
    ELSE Only({IF st1.thrown # NoError THEN st1 ELSE AddDefinitions(st1) :
                 st1 \in {AddTokenPaths(st0, resourceName, paths.entries, 1)}})

ImportOAuth(sw, tags, resourceName, paths) ==
    IF PathsLength(paths) = 0
    THEN [paths |-> sw.paths, definitions |-> sw.definitions,
          tags |-> tags, thrown |-> NoError]
    ELSE Only({CheckAndAdd(st0, resourceName, paths) :
                 st0 \in {[paths |-> OrEmpty(sw.paths, PathStrings),
                           definitions |-> OrEmpty(sw.definitions, DefNames),
                           tags |-> tags, thrown |-> NoError]}})

(***************************************************************************)
(* createResources() and setSwagger(swaggerObject).                        *)
(*                                                                         *)
(* A document is [id, set, services, paths, definitions]; id is the        *)
(* identity of the object, set = FALSE is the value undefined.  services   *)
(* maps each key of SERVICES to the sequence of its declarations [name,    *)
(* provider, passwordCheck, tokenPaths] in the order _.each visits them.   *)
(* A resource is [exists, name, provider, key, gen]; gen tells the         *)
(* createResources call that made it.  A resourcesMap is [loaded, gen,     *)
(* doc, map]: the call that made it and the document that call read.       *)
(***************************************************************************)
SERVICES   == <<"x-a127-services", "x-volos-resources">>
VOLOS_AUTH == "x-volos-authorizations"
A127_AUTH  == "x-a127-authorizations"

\* resource names a document or a requirement can use
RegistryNames == ResourceNames \cup {"ghost"}

\* provider modules: require() of any other name throws
OAuthProviders == {"volos-oauth-apigee"}
OtherProviders == {"volos-quota-memory"}

\* helper functions helpers.getHelperFunction can resolve
HelperFunctions == {"passwordCheck"}

NoResource == [exists |-> FALSE, name |-> "", provider |-> "", key |-> "", gen |-> 0]

\* resourcesMap: loaded = FALSE is the value undefined
UndefinedResources ==
    [loaded |-> FALSE, gen |-> 0, doc |-> 0, map |-> [n \in RegistryNames |-> NoResource]]

NoTokenPaths == [present |-> FALSE, array |-> FALSE, entries |-> <<>>]

UndefinedDocument ==
    [id |-> 0, set |-> FALSE, services |-> [k \in SeqRange(SERVICES) |-> <<>>],
     paths |-> Undefined, definitions |-> Undefined]

Thrown(type, name) == [type |-> type, names |-> <<name>>, keys |-> <<>>]

\* the callback of the inner _.each of createResources, for declaration d of `key`
CreateService(st, key, d, gen) ==
    IF d.provider \notin OAuthProviders \cup OtherProviders
    THEN [st EXCEPT !.thrown = Thrown("CannotFindModule", d.provider)]
    ELSE IF d.passwordCheck # "" /\ d.passwordCheck \notin HelperFunctions
    THEN [st EXCEPT !.thrown = Thrown("HelperNotFound", d.passwordCheck)]
    ELSE Only({IF imp.thrown # NoError
               THEN [st EXCEPT !.paths = imp.paths, !.definitions = imp.definitions,
                               !.tags = imp.tags, !.thrown = imp.thrown]
               ELSE [st EXCEPT !.paths = imp.paths, !.definitions = imp.definitions,
                               !.tags = imp.tags,
                               !.services[d.name] =
                                   [exists |-> TRUE, name |-> d.name, provider |-> d.provider,
                                    key |-> key, gen |-> gen]] :
                 imp \in {IF d.tokenPaths.present
                          THEN ImportOAuth(st, st.tags, d.name, d.tokenPaths)
                          ELSE [paths |-> st.paths, definitions |-> st.definitions,
                                tags |-> st.tags, thrown |-> NoError]}})

\* the inner _.each of createResources, from declaration i of `key` on
RECURSIVE CreateServices(_, _, _, _, _)
CreateServices(st, key, decls, i, gen) ==
    IF i > Len(decls) \/ st.thrown # NoError THEN st
    ELSE Only({CreateServices(next, key, decls, i + 1, gen) :
                 next \in {CreateService(st, key, decls[i], gen)}})

\* SERVICES.forEach(...) from key k on
RECURSIVE ForEachServices(_, _, _, _)
ForEachServices(st, sw, k, gen) ==
    IF k > Len(SERVICES) \/ st.thrown # NoError THEN st
    ELSE Only({ForEachServices(next, sw, k + 1, gen) :
                 next \in {CreateServices(st, SERVICES[k], sw.services[SERVICES[k]], 1, gen)}})

\* createResources(): [services, paths, definitions, tags, thrown]
CreateResources(sw, tags, gen) ==
    ForEachServices([services |-> [n \in RegistryNames |-> NoResource],
                     paths |-> sw.paths, definitions |-> sw.definitions,
                     tags |-> tags, thrown |-> NoError], sw, 1, gen)

\* setSwagger(swaggerObject): [swagger, resourcesMap, tags, thrown]
SetSwagger(sw, map, tags, swaggerObject, gen) ==
    IF ~swaggerObject.set
    THEN [swagger |-> sw, resourcesMap |-> map, tags |-> tags, thrown |-> NoError]
    ELSE Only({[swagger |-> [swaggerObject EXCEPT !.paths = r.paths,
                                                  !.definitions = r.definitions],
                resourcesMap |-> IF r.thrown = NoError
                                 THEN [loaded |-> TRUE, gen |-> gen, doc |-> swaggerObject.id,
                                       map |-> r.services]
                                 ELSE map,
                tags |-> r.tags,
                thrown |-> r.thrown] :
                 r \in {CreateResources(swaggerObject, tags, gen)}})

\* swaggerSecurityHandlers(): the names that get a handler, those of the
\* resources that have validGrantTypes
SwaggerSecurityHandlers(map) ==
    IF ~map.loaded THEN {}
    ELSE {n \in RegistryNames : map.map[n].exists /\ map.map[n].provider \in OAuthProviders}

\* mwFunction.resources and mwFunction.swaggerSecurityHandlers as middleware() sets them
Attachments(map) == [resources |-> map, handlers |-> SwaggerSecurityHandlers(map)]

(***************************************************************************)
(* SwaggerSecurityHandler(oauth): the function (request, securityDefinition,*)
(* scopes, cb).  A call is [pc, name, type, prior, token, verified, cb]:   *)
(* name is the resource of the handler, type is securityDefinition.type,   *)
(* prior is request.token before the call and token is request.token now,  *)
(* verified counts the calls of oauth.verifyToken, cb lists the calls of   *)
(* cb: "error" is cb(err), "none" is cb().                                 *)
(***************************************************************************)
HandlerCalls == 1..MaxHandlerCalls

SecurityTypes == {"oauth2", "basic", "apiKey"}

NoCall == [pc |-> "idle", name |-> "", type |-> "", prior |-> Undefined,
           token |-> Undefined, verified |-> 0, cb |-> <<>>]

\* the body of the handler up to its return
Handle(name, type, prior) ==
    IF type # "oauth2"
    THEN [pc |-> "returned", name |-> name, type |-> type, prior |-> prior,
          token |-> prior, verified |-> 0, cb |-> <<"none">>]
    ELSE [pc |-> "verifying", name |-> name, type |-> type, prior |-> prior,
          token |-> prior, verified |-> 1, cb |-> <<>>]

\* function(err, result) passed to oauth.verifyToken
OnVerified_Mutant(call, err, result) ==
    [call EXCEPT !.pc = "returned", !.token = result,
                 !.cb = Append(@, IF err THEN "error" ELSE "none")]

OnVerified(call, err, result) ==
    IF err THEN [call EXCEPT !.pc = "returned", !.cb = Append(@, "error")]
    ELSE [call EXCEPT !.pc = "returned", !.token = result, !.cb = Append(@, "none")]

(***************************************************************************)
(* ifAuthenticated(req, res, next) and the chain it builds.                *)
(*                                                                         *)
(* An authorizations value is Undefined (not declared) or                  *)
(* Val("object", entries), entries the sequence of [name, scope] in the    *)
(* order _.each visits them.  A chain is [built, steps]; a step is         *)
(* [kind, resource, scope, resources]: kind "check" is                     *)
(* oauth.connectMiddleware().authenticate(scope) of `resource`, kind       *)
(* "attach" is the function addResourcesToRequestMW() returns, which holds *)
(* the resourcesMap it was created with.                                   *)
(***************************************************************************)
Operations  == {"getOrders", "postOrders"}
NoOperation == "(no operation)"

\* the places ifAuthenticated reads authorizations from, in the order it reads them
Sources == <<"operation.a127", "path.a127", "operation.volos", "path.volos">>

Object(entries) == [kind |-> "object", id |-> entries]

\* the truthiness a || b tests
IsTruthy_Mutant(v) == v.kind = "object" /\ Len(v.id) > 0

IsTruthy(v) == v.kind = "object"

NoChain == [built |-> FALSE, steps |-> <<>>]

\* operation.volos: exists = FALSE is the value undefined
NoVolos == [exists |-> FALSE, authChain |-> NoChain]

CheckStep(resource, scope) ==
    [kind |-> "check", resource |-> resource, scope |-> scope, resources |-> UndefinedResources]

\* addResourcesToRequestMW()
AddResourcesToRequestMW(map) ==
    [kind |-> "attach", resource |-> NoResource, scope |-> "", resources |-> map]

\* helpers.chain(middlewares)
Chain(middlewares) == [built |-> TRUE, steps |-> middlewares]

\* operation.volos ? operation.volos.authChain : undefined
CachedChain_Mutant(volos) == NoChain

CachedChain(volos) == IF volos.exists THEN volos.authChain ELSE NoChain

\* the value of sources[i] of operation o: req.swagger.operation[...] or req.swagger.path[...]
Declared(auth, o, i) ==
    IF Sources[i] \in {"operation.a127", "operation.volos"} THEN auth[o][Sources[i]]
    ELSE auth["path"][Sources[i]]

\* a || b || c || d, evaluated from operand i on: the value and the operands read
RECURSIVE OrChain_Mutant(_, _, _)
OrChain_Mutant(auth, o, i) ==
    LET order == <<1, 3, 2, 4>>
        v     == Declared(auth, o, order[i])
    IN  IF IsTruthy(v) \/ i = Len(Sources)
        THEN [value |-> v, read |-> {Sources[order[j]] : j \in 1..i}]
        ELSE OrChain_Mutant(auth, o, i + 1)

RECURSIVE OrChain(_, _, _)
OrChain(auth, o, i) ==
    LET v == Declared(auth, o, i)
    IN  IF IsTruthy(v) \/ i = Len(Sources)
        THEN [value |-> v, read |-> {Sources[j] : j \in 1..i}]
        ELSE OrChain(auth, o, i + 1)

\* the callback of _.each(authorizations, ...) for entry e: [middlewares, calls, thrown];
\* calls counts the authenticate(scope) calls made
PushCheck_Mutant(st, map, e) ==
    IF ~map.loaded \/ ~map.map[e.name].exists \/ map.map[e.name].provider \notin OAuthProviders
    THEN st
    ELSE [st EXCEPT !.middlewares = Append(@, CheckStep(map.map[e.name], e.scope)),
                    !.calls = @ + 1]

PushCheck(st, map, e) ==
    IF ~map.loaded
    THEN [st EXCEPT !.thrown = Thrown("TypeError", "resourcesMap")]
    ELSE IF ~map.map[e.name].exists \/ map.map[e.name].provider \notin OAuthProviders
    THEN [st EXCEPT !.thrown = Thrown("TypeError", e.name)]
    ELSE [st EXCEPT !.middlewares = Append(@, CheckStep(map.map[e.name], e.scope)),
                    !.calls = @ + 1]

\* the _.each(authorizations, ...) loop from entry i on
RECURSIVE PushChecks(_, _, _, _)
PushChecks(st, map, entries, i) ==
    IF i > Len(entries) \/ st.thrown # NoError THEN st
    ELSE Only({PushChecks(next, map, entries, i + 1) :
                 next \in {PushCheck(st, map, entries[i])}})

\* if (authorizations) { _.each(authorizations, ...) }
Middlewares(authorizations, map) ==
    IF IsTruthy(authorizations)
    THEN PushChecks([middlewares |-> <<>>, calls |-> 0, thrown |-> NoError],
                    map, authorizations.id, 1)
    ELSE [middlewares |-> <<>>, calls |-> 0, thrown |-> NoError]

\* middlewares.push(addResourcesToRequestMW()) done with unshift
PushAttach_Mutant(middlewares, map) == <<AddResourcesToRequestMW(map)>> \o middlewares

\* middlewares.push(addResourcesToRequestMW())
PushAttach(middlewares, map) == Append(middlewares, AddResourcesToRequestMW(map))

\* the chain of the middlewares pushed, a throw skipped over
ChainOf_Mutant(chosen, pushed, map) ==
    [authChain |-> Chain(PushAttach(pushed.middlewares, map)),
     read |-> chosen.read,
     authorizations |-> chosen.value,
     calls |-> pushed.calls,
     thrown |-> NoError]

\* middlewares.push(addResourcesToRequestMW()); authChain = helpers.chain(middlewares)
ChainOf(chosen, pushed, map) ==
    [authChain |-> IF pushed.thrown = NoError
                   THEN Chain(PushAttach(pushed.middlewares, map))
                   ELSE NoChain,
     read |-> chosen.read,
     authorizations |-> chosen.value,
     calls |-> pushed.calls,
     thrown |-> pushed.thrown]

\* the block of ifAuthenticated that runs when there is no cached chain:
\* [authChain, read, authorizations, calls, thrown]
BuildChain(auth, o, map) ==
    Only({Only({ChainOf(chosen, pushed, map) : pushed \in {Middlewares(chosen.value, map)}}) :
            chosen \in {OrChain(auth, o, 1)}})

(***************************************************************************)
(* The requests.  A request is [pc, operation, accepts, chain, idx, volos,  *)
(* thrown, ran, mw, at]:                                                   *)
(* pc "new" not yet received, "passed" next() called without a chain,      *)
(* "running" its chain is at step idx, "done" the chain called next(),     *)
(* "rejected" a step ended the chain, "threw" the handler threw `thrown`;  *)
(* accepts is the set of resource names whose check accepts the request's  *)
(* credentials; volos is req.volos; ran lists the steps of the chain that   *)
(* were invoked, in the order of invocation; mw is the mwFunction that     *)
(* received the request and at the number of setSwagger calls made when    *)
(* mwFunction handed the request to ifAuthenticated.                       *)
(***************************************************************************)
Requests == 1..MaxRequests

\* req.volos: set = FALSE is the value undefined
NoReqVolos == [set |-> FALSE, resources |-> UndefinedResources]

NewRequest == [pc |-> "new", operation |-> NoOperation, accepts |-> {},
               chain |-> NoChain, idx |-> 0, volos |-> NoReqVolos,
               thrown |-> NoError, ran |-> <<>>, mw |-> 0, at |-> 0]

NoLog == [builds |-> 0, calls |-> 0, attaches |-> 0, writes |-> 0,
          read |-> {}, authorizations |-> Undefined]

\* the API documents the middleware is used with
OAuthService(name, tokenPaths) ==
    [name |-> name, provider |-> "volos-oauth-apigee", passwordCheck |-> "passwordCheck",
     tokenPaths |-> tokenPaths]

TokenPathsObject(entries) == [present |-> TRUE, array |-> FALSE, entries |-> entries]

ApiPaths       == [p \in PathStrings |-> IF p = "/orders" THEN Own(p) ELSE Absent]
ApiDefinitions == [d \in DefNames |-> IF d = "Order" THEN Own(d) ELSE Absent]

ApiDocument(a127, volos) ==
    [id |-> 1, set |-> TRUE,
     services |-> [k \in SeqRange(SERVICES) |-> IF k = SERVICES[1] THEN a127 ELSE volos],
     paths |-> ApiPaths, definitions |-> ApiDefinitions]

ApiDocuments ==
    { ApiDocument(<<OAuthService("oauth2", TokenPathsObject(<<[name |-> "token", path |-> "/accesstoken"]>>))>>,
                  <<OAuthService("oauth3", NoTokenPaths)>>),
      ApiDocument(<<OAuthService("oauth2", TokenPathsObject(<<[name |-> "token", path |-> "/accesstoken"]>>))>>,
                  <<[name |-> "oauth3", provider |-> "volos-quota-memory", passwordCheck |-> "",
                     tokenPaths |-> NoTokenPaths]>>) }

\* the authorizations a document declares at each source: none, an empty object,
\* or the requirements of that source
Requirements(source) ==
    CASE source = "operation.a127"  -> <<[name |-> "oauth2", scope |-> "op-a127"],
                                         [name |-> "oauth3", scope |-> "op-a127"]>>
      [] source = "path.a127"       -> <<[name |-> "oauth3", scope |-> "path-a127"]>>
      [] source = "operation.volos" -> <<[name |-> "ghost", scope |-> "op-volos"]>>
      [] source = "path.volos"      -> <<[name |-> "oauth2", scope |-> "path-volos"]>>

Declarations(source) == {Undefined, Object(<<>>), Object(Requirements(source))}

OperationSources == {"operation.a127", "operation.volos"}
PathSources      == {"path.a127", "path.volos"}

\* the operations getOrders and postOrders of the path /orders
OpAuth(ga, gv, pa, ha, hv) ==
    [k \in Operations \cup {"path"} |->
        [x \in SeqRange(Sources) |->
            IF k = "getOrders" /\ x = "operation.a127" THEN ga
            ELSE IF k = "getOrders" /\ x = "operation.volos" THEN gv
            ELSE IF k = "postOrders" /\ x = "operation.a127" THEN pa
            ELSE IF k = "path" /\ x = "path.a127" THEN ha
            ELSE IF k = "path" /\ x = "path.volos" THEN hv
            ELSE Undefined]]

OpAuths ==
    {OpAuth(ga, gv, pa, ha, hv) :
        ga \in Declarations("operation.a127"), gv \in Declarations("operation.volos"),
        pa \in {Undefined, Object(Requirements("operation.a127"))},
        ha \in Declarations("path.a127"), hv \in Declarations("path.volos")}

\* the declarations of the documents whose requests interleave: chains of two
\* checks, of one check and of none, and a requirement naming no resource
InterleavedOpAuths ==
    {OpAuth(ga, gv, Undefined, ha, Undefined) :
        ga \in {Undefined, Object(Requirements("operation.a127"))},
        gv \in {Undefined, Object(Requirements("operation.volos"))},
        ha \in {Undefined, Object(Requirements("path.a127"))}}

\* the credentials of a request: the resources whose check accepts them
Credentials == {{}, {"oauth2"}, ResourceNames}

\* ifAuthenticated after a build that gave b: the write to the operation, or the throw
AfterBuild(volos, lg, b) ==
    IF b.thrown # NoError
    THEN [volos |-> volos, authChain |-> NoChain,
          log |-> [lg EXCEPT !.calls = @ + b.calls, !.read = b.read,
                             !.authorizations = b.authorizations],
          thrown |-> b.thrown]
    ELSE [volos |-> [exists |-> TRUE, authChain |-> b.authChain],
          authChain |-> b.authChain,
          log |-> [builds |-> lg.builds + 1, calls |-> lg.calls + b.calls,
                   attaches |-> lg.attaches + 1,
                   writes |-> lg.writes + (IF volos.exists THEN 1 ELSE 2),
                   read |-> b.read, authorizations |-> b.authorizations],
          thrown |-> NoError]

\* ifAuthenticated up to the call of the chain:
\* [volos, authChain, log, thrown] for operation.volos, the chain to run and the history
IfAuthenticated(volos, lg, auth, o, map) ==
    IF CachedChain(volos).built
    THEN [volos |-> volos, authChain |-> CachedChain(volos), log |-> lg, thrown |-> NoError]
    ELSE Only({AfterBuild(volos, lg, b) : b \in {BuildChain(auth, o, map)}})

(***************************************************************************)
(* Specification Spec: the middleware after middleware(swaggerObject,      *)
(* config) returned it, handling requests.                                 *)
(***************************************************************************)
InjectIdle ==
    /\ ipc = "ready"
    /\ iargs = NoArgs
    /\ ipre = UndefinedDocument
    /\ ithrown = NoError

\* the state in which middleware(swaggerObject, config) returns mwFunction
Constructed(auths) ==
    /\ opAuth \in auths
    /\ \E given \in BOOLEAN, api \in ApiDocuments :
          \E r \in {SetSwagger(UndefinedDocument, UndefinedResources,
                                [k \in EndpointNames |-> NoTag],
                                IF given THEN api ELSE UndefinedDocument, 1)} :
              /\ r.thrown = NoError
              /\ swagger = r.swagger
              /\ document = IF given THEN r.swagger ELSE api
              /\ resourcesMap = r.resourcesMap
              /\ oauthTags = r.tags
              /\ mws = <<Attachments(r.resourcesMap)>>
    /\ loads = 1
    /\ handler = [c \in HandlerCalls |-> NoCall]
    /\ opVolos = [o \in Operations |-> NoVolos]
    /\ req = [r \in Requests |-> NewRequest]
    /\ log = [o \in Operations |-> NoLog]
    /\ InjectIdle

Init == Constructed(InterleavedOpAuths)

\* mwFunction(req, res, next) for a request without req.swagger.operation
PassThrough(r) ==
    /\ req[r].pc = "new"
    /\ \A q \in Requests : q < r => req[q].pc # "new"
    /\ \E m \in 1..Len(mws) : req' = [req EXCEPT ![r].pc = "passed", ![r].mw = m]
    /\ UNCHANGED <<swagger, oauthTags, resourcesMap, document, opAuth, opVolos, log, ivars, lvars, hvars>>

\* mwFunction(req, res, next) of middleware m for a request to operation o;
\* req.swagger.swaggerObject is the object `document`, which setSwagger changes in place
MwFunction(r, m, o, accepts) ==
    /\ req[r].pc = "new"
    /\ \A q \in Requests : q < r => req[q].pc # "new"
    /\ m \in 1..Len(mws)
    /\ \E lazy \in {IF swagger.set
                     THEN [swagger |-> swagger, resourcesMap |-> resourcesMap,
                           tags |-> oauthTags, thrown |-> NoError]
                     ELSE SetSwagger(swagger, resourcesMap, oauthTags, document, loads + 1)} :
       \E a \in {IfAuthenticated(opVolos[o], log[o], opAuth, o, lazy.resourcesMap)} :
           /\ swagger' = lazy.swagger
           /\ oauthTags' = lazy.tags
           /\ resourcesMap' = lazy.resourcesMap
           /\ loads' = IF swagger.set THEN loads ELSE loads + 1
           /\ document' = IF swagger.set THEN document ELSE lazy.swagger
           /\ IF lazy.thrown # NoError
              THEN /\ req' = [req EXCEPT ![r].pc = "threw", ![r].operation = o,
                                         ![r].accepts = accepts, ![r].mw = m,
                                         ![r].at = loads', ![r].thrown = lazy.thrown]
                   /\ UNCHANGED <<opVolos, log>>
              ELSE /\ opVolos' = [opVolos EXCEPT ![o] = a.volos]
                   /\ log' = [log EXCEPT ![o] = a.log]
                   /\ req' = [req EXCEPT ![r].pc = IF a.thrown # NoError THEN "threw" ELSE "running",
                                         ![r].operation = o,
                                         ![r].accepts = accepts,
                                         ![r].mw = m,
                                         ![r].at = loads',
                                         ![r].chain = a.authChain,
                                         ![r].thrown = a.thrown,
                                         ![r].idx = IF a.thrown # NoError THEN 0 ELSE 1]
    /\ UNCHANGED <<opAuth, mws, ivars, hvars>>

\* what a check step does with a request: "next" calls next(), "end" ends the chain
CheckOutcome(step, accepts) == IF step.resource.name \in accepts THEN "next" ELSE "end"

\* a check step of the chain of request r ends: it calls next() or ends the chain
RunCheck(r) ==
    /\ req[r].pc = "running"
    /\ \E step \in {req[r].chain.steps[req[r].idx]} :
           /\ step.kind = "check"
           /\ req' = IF CheckOutcome(step, req[r].accepts) = "next"
                     THEN [req EXCEPT ![r].idx = @ + 1, ![r].ran = Append(@, req[r].idx),
                                      ![r].pc = IF req[r].idx = Len(req[r].chain.steps)
                                                THEN "done" ELSE "running"]
                     ELSE [req EXCEPT ![r].pc = "rejected", ![r].ran = Append(@, req[r].idx)]
    /\ UNCHANGED <<swagger, oauthTags, resourcesMap, document, opAuth, opVolos, log, ivars, lvars, hvars>>

\* the attach step of the chain of request r runs: req.volos = resources; next()
RunAttach(r) ==
    /\ req[r].pc = "running"
    /\ \E step \in {req[r].chain.steps[req[r].idx]} :
           /\ step.kind = "attach"
           /\ req' = [req EXCEPT ![r].volos = [set |-> TRUE, resources |-> step.resources],
                                 ![r].idx = @ + 1,
                                 ![r].ran = Append(@, req[r].idx),
                                 ![r].pc = IF req[r].idx = Len(req[r].chain.steps)
                                           THEN "done" ELSE "running"]
    /\ UNCHANGED <<swagger, oauthTags, resourcesMap, document, opAuth, opVolos, log, ivars, lvars, hvars>>

Next ==
    \/ \E r \in Requests : PassThrough(r)
    \/ \E r \in Requests, o \in Operations, c \in Credentials : MwFunction(r, 1, o, c)
    \/ \E r \in Requests : RunCheck(r)
    \/ \E r \in Requests : RunAttach(r)

Spec == Init /\ [][Next]_vars

(***************************************************************************)
(* Specification SpecPriority: the first request to an operation, for      *)
(* every combination of declarations at the four sources.                  *)
(***************************************************************************)
InitPriority == Constructed(OpAuths)

NextPriority ==
    \/ \E o \in Operations, c \in Credentials : MwFunction(1, 1, o, c)
    \/ RunCheck(1)
    \/ RunAttach(1)

SpecPriority == InitPriority /\ [][NextPriority]_vars

(***************************************************************************)
(* The inputs of importOAuth.                                              *)
(***************************************************************************)
\* swagger.paths / swagger.definitions of a document as its author wrote it
AuthorObjects(D) == {Undefined} \cup [D -> {Absent}] \cup
    {[k \in D |-> IF k \in S THEN Own(k) ELSE Absent] : S \in SUBSET D}

\* the keys of an object are distinct
DistinctNames(s) == \A i, j \in 1..Len(s) : s[i].name = s[j].name => i = j

\* a tokenPaths object: distinct keys, any path strings as values
ObjectTokenPaths ==
    {[array |-> FALSE, entries |-> es] :
        es \in {s \in UNION {[1..n -> [name : EndpointNames, path : PathStrings]] :
                                n \in 0..MaxTokenPaths} : DistinctNames(s)}}

\* a tokenPaths array: _.each passes the index as the name
ArrayTokenPaths ==
    {[array |-> TRUE, entries |-> <<>>]} \cup
    {[array |-> TRUE, entries |-> <<[name |-> "0", path |-> p]>>] : p \in PathStrings}

TokenPaths == ObjectTokenPaths \cup ArrayTokenPaths

(***************************************************************************)
(* Specification SpecInject: one call of importOAuth on any document.      *)
(***************************************************************************)
InitInject ==
    /\ swagger \in {[UndefinedDocument EXCEPT !.set = TRUE, !.paths = p, !.definitions = d] :
                        p \in AuthorObjects(PathStrings), d \in AuthorObjects(DefNames)}
    /\ oauthTags = [k \in EndpointNames |-> NoTag]
    /\ ipc = "ready"
    /\ iargs = NoArgs
    /\ ipre = swagger
    /\ ithrown = NoError
    /\ resourcesMap = UndefinedResources
    /\ document = UndefinedDocument
    /\ opAuth = OpAuth(Undefined, Undefined, Undefined, Undefined, Undefined)
    /\ opVolos = [o \in Operations |-> NoVolos]
    /\ req = [r \in Requests |-> NewRequest]
    /\ log = [o \in Operations |-> NoLog]
    /\ loads = 0
    /\ mws = <<>>
    /\ handler = [c \in HandlerCalls |-> NoCall]

CallImportOAuth(resourceName, paths) ==
    /\ ipc = "ready"
    /\ \E r \in {ImportOAuth(swagger, oauthTags, resourceName, paths)} :
           /\ swagger'   = [swagger EXCEPT !.paths = r.paths, !.definitions = r.definitions]
           /\ oauthTags' = r.tags
           /\ ithrown'   = r.thrown
           /\ ipc'       = IF r.thrown = NoError THEN "returned" ELSE "thrown"
    /\ iargs' = [resourceName |-> resourceName, paths |-> paths]
    /\ ipre'  = swagger
    /\ UNCHANGED rvars

NextInject == \E n \in ResourceNames, p \in TokenPaths : CallImportOAuth(n, p)

SpecInject == InitInject /\ [][NextInject]_vars

(***************************************************************************)
(* Claims about ifAuthenticated, checked under Spec and SpecPriority.      *)
(***************************************************************************)
\* the cache slot operation.volos.authChain of o holds a chain
Cached(o) == opVolos[o].exists /\ opVolos[o].authChain.built

\* the sources of o that declare authorizations, as positions of Sources
Present(o) == {i \in 1..Len(Sources) : Declared(opAuth, o, i) # Undefined}

First(S) == CHOOSE i \in S : \A j \in S : i <= j

\* the requirement mapping the documented priority order selects for o
FirstPresent(o) ==
    IF Present(o) = {} THEN <<>> ELSE Declared(opAuth, o, First(Present(o))).id

\* chain c is one check per entry of mapping m, in order, then one attach step
Complete(c, m) ==
    /\ c.built
    /\ Len(c.steps) = Len(m) + 1
    /\ \A i \in 1..Len(m) :
          /\ c.steps[i].kind = "check"
          /\ c.steps[i].resource.name = m[i].name
          /\ c.steps[i].scope = m[i].scope
    /\ c.steps[Len(m) + 1].kind = "attach"

Received(r) == req[r].pc \in {"running", "done", "rejected"}

\* C1: once an operation holds a cached chain, a step of the program leaves
\* the operation and the history of its builds (factory calls, attach steps
\* created, writes to the operation) as they are, and a request that arrives
\* for the operation runs exactly the cached chain.
C1_Memoization ==
    [][\A o \in Operations :
          Cached(o) =>
             /\ opVolos'[o] = opVolos[o]
             /\ log'[o] = log[o]
             /\ \A r \in Requests :
                   (req[r].pc = "new" /\ req'[r].operation = o) =>
                       /\ req'[r].pc = "running"
                       /\ req'[r].chain = opVolos[o].authChain]_vars

\* two requests to one operation were received, the chain has check steps
C1_Witness ==
    \E o \in Operations :
        /\ Cached(o)
        /\ Len(opVolos[o].authChain.steps) > 1
        /\ log[o].builds = 1
        /\ \A r \in {1, 2} : Received(r) /\ req[r].operation = o

\* C2: in every reachable state each operation's chain has been built at most
\* once, its cache slot is empty or holds a complete chain (one check step per
\* entry of the chosen mapping, in mapping order, then exactly one attach
\* step), and the slot of an operation whose build threw is empty.
C2_BuiltOnceAndComplete ==
    /\ \A o \in Operations :
          /\ log[o].builds <= 1
          /\ \/ ~opVolos[o].exists /\ log[o].builds = 0
             \/ Complete(opVolos[o].authChain, FirstPresent(o)) /\ log[o].builds = 1
    /\ \A r \in Requests :
          (req[r].pc = "threw" /\ req[r].thrown.type = "TypeError") =>
              ~opVolos[req[r].operation].exists

\* both requests went to one operation: one whose build threw, or one with a
\* chain of two check steps
C2_Witness ==
    /\ \A r \in {1, 2} : req[r].pc # "new" /\ req[r].operation = "getOrders"
    /\ \/ req[1].pc = "threw" /\ req[2].pc = "threw" /\ log["getOrders"].calls = 0
       \/ Cached("getOrders") /\ Len(opVolos["getOrders"].authChain.steps) = 3

\* a build of o's chain has been attempted
BuildTried(o) == log[o].read # {}

\* C4: whatever the four sources declare, the mapping a build uses is the
\* first present one in the order operation x-a127-authorizations, path
\* x-a127-authorizations, operation x-volos-authorizations, path
\* x-volos-authorizations, the chain built is the chain of that mapping, and
\* no source after it is read.
C4_PriorityOrder ==
    \A o \in Operations :
        BuildTried(o) =>
            /\ log[o].authorizations =
                  (IF Present(o) = {} THEN Undefined ELSE Object(FirstPresent(o)))
            /\ log[o].read =
                  {Sources[j] : j \in 1..(IF Present(o) = {} THEN Len(Sources) ELSE First(Present(o)))}
            /\ Cached(o) => Complete(opVolos[o].authChain, FirstPresent(o))

\* the second source is used although the third and fourth declare requirements
C4_Witness ==
    /\ Cached("getOrders")
    /\ Present("getOrders") = {2, 3, 4}
    /\ log["getOrders"].read = {"operation.a127", "path.a127"}
    /\ Len(opVolos["getOrders"].authChain.steps) = 2

\* the first present source of o declares an empty mapping
EmptyFirst(o) == Present(o) # {} /\ FirstPresent(o) = <<>>

\* a source after the first present one declares requirements
LowerDeclares(o) ==
    \E i \in Present(o) : i > First(Present(o)) /\ Declared(opAuth, o, i).id # <<>>

\* C5: when the first present source declares an empty mapping, the chain
\* built is the attach step alone and no check step is created, also when a
\* source after it declares requirements.
C5_EmptyIsTerminal ==
    \A o \in Operations :
        (BuildTried(o) /\ EmptyFirst(o)) =>
            /\ Cached(o)
            /\ Len(opVolos[o].authChain.steps) = 1
            /\ opVolos[o].authChain.steps[1].kind = "attach"
            /\ log[o].calls = 0

\* an empty operation-level mapping above a path-level one with requirements,
\* and the request ran the chain to its end
C5_Witness ==
    \E o \in Operations :
        /\ BuildTried(o) /\ EmptyFirst(o) /\ LowerDeclares(o)
        /\ req[1].pc = "done" /\ req[1].operation = o

\* step i of the chain of request r is a check that fails for r
Fails(r, i) ==
    /\ req[r].chain.steps[i].kind = "check"
    /\ CheckOutcome(req[r].chain.steps[i], req[r].accepts) = "end"

\* C14: the steps of a chain are invoked in order, each at most once; after a
\* check step failed the request is rejected and no later step was invoked;
\* req.volos is set only by a chain that ran to its end with every check
\* step succeeding, and it is the registry the attach step holds.
C14_ShortCircuit ==
    \A r \in Requests :
        /\ Len(req[r].ran) <= Len(req[r].chain.steps)
        /\ \A i \in DOMAIN req[r].ran :
               /\ req[r].ran[i] = i
               /\ Fails(r, i) =>
                      i = Len(req[r].ran) /\ req[r].pc = "rejected" /\ ~req[r].volos.set
        /\ req[r].pc = "rejected" =>
               Len(req[r].ran) > 0 /\ Fails(r, Len(req[r].ran))
        /\ req[r].volos.set =>
               /\ req[r].pc = "done"
               /\ Len(req[r].ran) = Len(req[r].chain.steps)
               /\ \A i \in DOMAIN req[r].chain.steps : ~Fails(r, i)
               /\ req[r].chain.steps[Len(req[r].ran)].kind = "attach"
               /\ req[r].volos.resources = req[r].chain.steps[Len(req[r].ran)].resources

\* a request was rejected by the first of two checks, another passed both
\* checks and got req.volos
C14_Witness ==
    \E q, r \in Requests :
        /\ req[q].pc = "rejected" /\ Len(req[q].chain.steps) = 3 /\ req[q].ran = <<1>>
        /\ req[r].pc = "done" /\ Len(req[r].chain.steps) = 3 /\ req[r].volos.set

\* the mapping selected for o names a resource that resourcesMap does not have
NamesAbsent(o) ==
    /\ resourcesMap.loaded
    /\ \E e \in SeqRange(FirstPresent(o)) : ~resourcesMap.map[e.name].exists

\* request r arrives for operation o in this step
Arrives(r, o) == req[r].pc = "new" /\ req'[r].pc # "new" /\ req'[r].operation = o

Called == ipc # "ready"

PrePaths       == OrEmpty(ipre.paths, PathStrings)
PreDefinitions == OrEmpty(ipre.definitions, DefNames)
NowPaths       == OrEmpty(swagger.paths, PathStrings)
NowDefinitions == OrEmpty(swagger.definitions, DefNames)

\* the entries of the call whose target path is a key of swagger.paths at the call
Colliding == SelectSeq(iargs.paths.entries, LAMBDA e : e.path \in Keys(PrePaths))

HasTemplate(name) == KeyPath(name) \in SeqRange(OauthSwaggerPathKeys)

\* the call names an endpoint that has no template
UnknownRequested == \E i \in 1..Len(iargs.paths.entries) : ~HasTemplate(iargs.paths.entries[i].name)

\* C6: every path string and every data-shape name present in the
\* Specification before importOAuth has, after a call with at least one
\* endpoint (returned or thrown), the value it had before.
C6_NeverOverwrites ==
    (Called /\ Len(iargs.paths.entries) > 0) =>
        /\ \A p \in Keys(PrePaths) : NowPaths[p] = PrePaths[p]
        /\ \A d \in Keys(PreDefinitions) : NowDefinitions[d] = PreDefinitions[d]

\* C7: a call with two endpoints of which exactly one targets an existing path
\* throws the path-collision error naming only that one and leaves
\* swagger.paths and swagger.definitions as they were.
C7_CollisionAtomicity ==
    (Called /\ ~iargs.paths.array /\ Len(iargs.paths.entries) = 2 /\ Len(Colliding) = 1) =>
        /\ ithrown.type = "PathsExist"
        /\ ithrown.names = <<Colliding[1].path>>
        /\ swagger = ipre

\* C8: when a data-shape name of the template already exists in
\* swagger.definitions, a call with a non-empty endpoint list throws the
\* definition-collision error and writes no path and no definition.
C8_DefinitionCollision ==
    (Called /\ Len(iargs.paths.entries) > 0
            /\ Keys(PreDefinitions) \cap OauthSwaggerDefinitions # {}) =>
        /\ ithrown.type = "DefinitionsExist"
        /\ NowPaths = PrePaths
        /\ NowDefinitions = PreDefinitions

\* C9: a call that names an endpoint without a template leaves swagger.paths
\* and swagger.definitions equal to their values before the call.
C9_FailedInjectionUnchanged ==
    (Called /\ UnknownRequested) =>
        /\ NowPaths = PrePaths
        /\ NowDefinitions = PreDefinitions

\* C10: a call that names an endpoint without a template throws the
\* unknown-endpoint error, and the error lists exactly the endpoint names that
\* have a template: every key of oauthSwagger.paths without its leading slash.
C10_UnknownEndpointListsValid ==
    (Called /\ UnknownRequested) =>
        /\ ithrown.type = "InvalidTokenPathKey"
        /\ ~HasTemplate(ithrown.names[1])
        /\ Len(ithrown.keys) = Len(OauthSwaggerPathKeys)
        /\ SeqRange(ithrown.keys) = {n \in EndpointNames : HasTemplate(n)}

\* an unknown name requested after a valid one, in a document that has paths
C10_Witness ==
    /\ ipc = "thrown"
    /\ ithrown.type = "InvalidTokenPathKey"
    /\ Len(iargs.paths.entries) = 2
    /\ HasTemplate(iargs.paths.entries[1].name)
    /\ Keys(PrePaths) # {}

\* C11: a call whose tokenPaths is a name-to-path mapping without entries
\* leaves swagger.paths and swagger.definitions exactly as they were: nothing
\* is created and nothing is copied from the template.
C11_EmptyIsNoOp ==
    (Called /\ ~iargs.paths.array /\ Len(iargs.paths.entries) = 0) =>
        /\ ithrown = NoError
        /\ swagger = ipre

(***************************************************************************)
(* Calls of the security handlers of the first mwFunction.  verifyToken of *)
(* the resource calls its callback once, with an error or with a result.   *)
(***************************************************************************)
VerificationResults == {Str("verified")}

PriorTokens == {Undefined, Str("earlier")}

InitHandler == Constructed({OpAuth(Undefined, Undefined, Undefined, Undefined, Undefined)})

\* mwFunction.swaggerSecurityHandlers[name](request, securityDefinition, scopes, cb)
HandlerCall(c, name, type, prior) ==
    /\ handler[c].pc = "idle"
    /\ \A b \in HandlerCalls : b < c => handler[b].pc # "idle"
    /\ name \in mws[1].handlers
    /\ handler' = [handler EXCEPT ![c] = Handle(name, type, prior)]
    /\ UNCHANGED <<swagger, oauthTags, resourcesMap, document, opAuth, opVolos, req, log,
                   ivars, lvars>>

\* oauth.verifyToken calls the function passed to it
VerifyTokenCallback(c, err, result) ==
    /\ handler[c].pc = "verifying"
    /\ handler' = [handler EXCEPT ![c] = OnVerified(handler[c], err, result)]
    /\ UNCHANGED <<swagger, oauthTags, resourcesMap, document, opAuth, opVolos, req, log,
                   ivars, lvars>>

NextHandler ==
    \/ \E c \in HandlerCalls, n \in ResourceNames, t \in SecurityTypes, p \in PriorTokens :
           HandlerCall(c, n, t, p)
    \/ \E c \in HandlerCalls, err \in BOOLEAN, result \in VerificationResults :
           VerifyTokenCallback(c, err, result)

SpecHandler == InitHandler /\ [][NextHandler]_vars

\* C13: a handler called with a securityDefinition whose type is not oauth2
\* returns without calling verifyToken, and its callback got an error.
C13_WrongSchemeRejected ==
    \A c \in HandlerCalls :
        (handler[c].pc = "returned" /\ handler[c].type # "oauth2") =>
            /\ handler[c].verified = 0
            /\ handler[c].cb = <<"error">>

MaxLoads == 3

Service(name, provider, passwordCheck, tokenPaths) ==
    [name |-> name, provider |-> provider, passwordCheck |-> passwordCheck,
     tokenPaths |-> tokenPaths]

TokenAt(path) == TokenPathsObject(<<[name |-> "token", path |-> path]>>)

\* what the specification objects declare
LoadContents ==
    ApiDocuments \cup
    { \* two oauth resources that inject the endpoint `token` at two paths
      ApiDocument(<<OAuthService("oauth2", TokenAt("/accesstoken")),
                    OAuthService("oauth3", TokenAt("/refresh"))>>, <<>>),
      \* the name oauth2 under both keys
      ApiDocument(<<OAuthService("oauth2", TokenAt("/accesstoken"))>>,
                  <<Service("oauth2", "volos-quota-memory", "", NoTokenPaths)>>),
      \* a provider that cannot be required, after a resource that injected
      ApiDocument(<<OAuthService("oauth2", TokenAt("/refresh")),
                    Service("oauth3", "no-such-module", "", NoTokenPaths)>>, <<>>),
      \* a helper that cannot be resolved
      ApiDocument(<<Service("oauth2", "volos-oauth-apigee", "noSuchHelper", NoTokenPaths)>>, <<>>),
      \* an endpoint name the template does not have
      ApiDocument(<<OAuthService("oauth2",
                        TokenPathsObject(<<[name |-> "login", path |-> "/accesstoken"]>>))>>,
                  <<>>) }

\* the argument swaggerObject of call n of middleware: undefined, or a new object
SwaggerObject(content, n) == IF content.set THEN [content EXCEPT !.id = n] ELSE content

InitLoad ==
    /\ swagger = UndefinedDocument
    /\ oauthTags = [k \in EndpointNames |-> NoTag]
    /\ InjectIdle
    /\ resourcesMap = UndefinedResources
    /\ document = UndefinedDocument
    /\ opAuth = OpAuth(Undefined, Undefined, Undefined, Undefined, Undefined)
    /\ opVolos = [o \in Operations |-> NoVolos]
    /\ req = [r \in Requests |-> NewRequest]
    /\ log = [o \in Operations |-> NoLog]
    /\ loads = 0
    /\ mws = <<>>
    /\ handler = [c \in HandlerCalls |-> NoCall]

\* middleware(swaggerObject, config) called for the (loads + 1)-th time: when setSwagger throws, no mwFunction is returned
Middleware(content) ==
    /\ loads < MaxLoads
    /\ \E r \in {SetSwagger(swagger, resourcesMap, oauthTags,
                             SwaggerObject(content, loads + 1), loads + 1)} :
           /\ swagger' = r.swagger
           /\ resourcesMap' = r.resourcesMap
           /\ oauthTags' = r.tags
           /\ mws' = IF r.thrown = NoError THEN Append(mws, Attachments(r.resourcesMap)) ELSE mws
    /\ loads' = loads + 1
    /\ UNCHANGED <<document, opAuth, opVolos, req, log, ivars, hvars>>

NextLoad == \E content \in LoadContents \cup {UndefinedDocument} : Middleware(content)

SpecLoad == InitLoad /\ [][NextLoad]_vars

(***************************************************************************)
(* Claims about loads, checked under SpecLoad.                             *)
(***************************************************************************)
\* the declarations of the specification in use, of every key
ServiceDefinitions ==
    UNION {SeqRange(swagger.services[k]) : k \in SeqRange(SERVICES)}

\* the resourcesMap in use was built from the specification in use
BuildCompleted == swagger.set /\ resourcesMap.loaded /\ resourcesMap.doc = swagger.id

\* the tag of the path item at `path` of the specification in use
TagAt(path) == oauthTags[swagger.paths[path].id]

\* C12: after a build that completed, the path item injected for every
\* tokenPaths entry of every resource carries the name of that resource, also
\* when two resources inject the same endpoint name at different paths.
C12_TagNamesRequester ==
    BuildCompleted =>
        \A d \in ServiceDefinitions :
            \A e \in SeqRange(d.tokenPaths.entries) :
                swagger.paths[e.path].kind = "tmpl" => TagAt(e.path) = d.name

\* the declarations of `name` under key k of the specification in use
DeclaredUnder(k, name) == {d \in SeqRange(swagger.services[SERVICES[k]]) : d.name = name}

\* C16: after a build that completed, a name declared under both keys is, in
\* the registry, the resource of its x-a127-services declaration.
C16_FirstKeyWins ==
    BuildCompleted =>
        \A n \in ResourceNames :
            (DeclaredUnder(1, n) # {} /\ DeclaredUnder(2, n) # {}) =>
                /\ resourcesMap.map[n].exists
                /\ resourcesMap.map[n].key = SERVICES[1]
                /\ \E d \in DeclaredUnder(1, n) : resourcesMap.map[n].provider = d.provider

\* C17: after any sequence of loads, failed ones included, the specification
\* in use and the registry in use belong together: the registry was built,
\* completely, from that specification.
C17_MatchingPair ==
    swagger.set => BuildCompleted

(***************************************************************************)
(* Requests and further middleware() calls: after the first mwFunction was *)
(* returned, the application calls middleware again, with a specification  *)
(* object parsed afresh or with none, while requests go on arriving at any *)
(* of the mwFunctions returned so far.                                     *)
(***************************************************************************)
InitReload ==
    Constructed({OpAuth(Object(Requirements("operation.a127")), Undefined, Undefined,
                        Undefined, Object(Requirements("path.volos")))})

\* the requests that arrive while middleware() is called again
ReloadRequests == 1..(MaxRequests - 1)

NextReload ==
    \/ \E r \in ReloadRequests, m \in 1..MaxLoads, o \in Operations, c \in {{}, ResourceNames} :
           MwFunction(r, m, o, c)
    \/ \E r \in ReloadRequests : RunCheck(r)
    \/ \E r \in ReloadRequests : RunAttach(r)
    \/ \E content \in ApiDocuments \cup {UndefinedDocument} : Middleware(content)

SpecReload == InitReload /\ [][NextReload]_vars

\* request r completes its chain in this step
Completes(r) == req[r].pc # "done" /\ req'[r].pc = "done"

\* C19: when a chain runs to completion for a request that arrived after the
\* most recent load, the registry attached to the request is the registry in
\* use, and every check step of the chain belongs to a resource of it.
C19_ChainUsesCurrentRegistry ==
    [][\A r \in Requests :
          (Completes(r) /\ req[r].at = loads) =>
              /\ req'[r].volos.resources = resourcesMap
              /\ \A i \in DOMAIN req[r].chain.steps :
                     req[r].chain.steps[i].kind = "check" =>
                         req[r].chain.steps[i].resource =
                             resourcesMap.map[req[r].chain.steps[i].resource.name]]_vars

\* C20: the registry a request's chain attaches, and so the registry its
\* check steps were taken from, is the `resources` attachment of the
\* mwFunction that received the request.
C20_AttachmentIsRegistry ==
    \A r \in Requests :
        (req[r].mw # 0 /\ req[r].chain.built) =>
            \A i \in DOMAIN req[r].chain.steps :
                req[r].chain.steps[i].kind = "attach" =>
                    req[r].chain.steps[i].resources = mws[req[r].mw].resources

====
